---- MODULE Spec2Model ----
(***************************************************************************)
(* A model of src/app.js, the NH RSA citation resolver: the normalizer,    *)
(* the citation parser, the chapter token ordering, the folder resolver,   *)
(* the URL builder and the asynchronous trigger handler go().              *)
(*                                                                         *)
(* JavaScript strings are sequences of character codes, so that            *)
(* toLowerCase, toUpperCase and charCodeAt are computed and not assumed.   *)
(* A function that may throw returns Return(v) or Throw(msg, arg), where   *)
(* the thrown Error's message is msg followed by the string arg.           *)
(***************************************************************************)
EXTENDS Integers, Sequences, FiniteSets, TLC

VARIABLES
    call,      \* the frame of one call of a pure function: arguments, locals, result
    inv,       \* the invocations of go(): each one's position and locals
    out,       \* the content of the output area, document.getElementById("out")
    opened,    \* the URLs passed to window.open, in order
    fetches    \* the number of fetches of the mapping issued so far

vars == <<call, inv, out, opened, fetches>>

---------------------------------------------------------------------------
(* Characters *)

Dash == 45
Colon == 58
Space == 32
Slash == 47
Digit0 == 48
Digit9 == 57
UpperA == 65
UpperZ == 90
LowerA == 97
LowerZ == 122
CaseOffset == 32
CodeBeforeUpperA == 64
Radix10 == 10
Radix26 == 26
RsaLen == 3

IsDigit(c) == c \in Digit0..Digit9
IsUpper(c) == c \in UpperA..UpperZ
IsLower(c) == c \in LowerA..LowerZ
IsSpace(c) == c \in {Space, 9, 10, 13}

RSA_PREFIX == <<114, 115, 97>>
BASE == <<104, 116, 116, 112, 115, 58, 47, 47, 103, 99, 46, 110, 104, 46,
          103, 111, 118, 47, 114, 115, 97, 47, 104, 116, 109, 108>>
HTM == <<46, 104, 116, 109>>
MRG == <<109, 114, 103>>

toLowerCase(s) == [i \in 1..Len(s) |-> IF IsUpper(s[i]) THEN s[i] + CaseOffset ELSE s[i]]
toUpperCase(s) == [i \in 1..Len(s) |-> IF IsLower(s[i]) THEN s[i] - CaseOffset ELSE s[i]]

SetMin(S) == CHOOSE x \in S : \A y \in S : x <= y
SetMax(S) == CHOOSE x \in S : \A y \in S : y <= x

trim(s) ==
    LET solid == {i \in 1..Len(s) : ~IsSpace(s[i])}
    IN  IF solid = {} THEN <<>> ELSE SubSeq(s, SetMin(solid), SetMax(solid))

NotSpace(c) == ~IsSpace(c)
removeWhitespace(s) == SelectSeq(s, NotSpace)

startsWith(s, p) == Len(s) >= Len(p) /\ SubSeq(s, 1, Len(p)) = p

---------------------------------------------------------------------------
(* JavaScript values and completions *)

JsNull == [t |-> "null", str |-> <<>>]
JsUndefined == [t |-> "undefined", str |-> <<>>]
JsStr(s) == [t |-> "string", str |-> s]
Truthy(v) == v.t = "string" /\ v.str # <<>>

Return(v) == [ok |-> TRUE, val |-> v]
Throw(m, a) == [ok |-> FALSE, msg |-> m, arg |-> a]

ParseErrorMsg == "Could not parse. Try '225-A:24' or 'RSA 225-A'."
BadChapterMsg == "Bad chapter format: "
MappingLoadMsg == "Could not load mapping JSON."
MissingFolderMsg == "Could not determine title folder for chapter "

---------------------------------------------------------------------------
(* normalize, parseRSA *)

\* (s || "").trim().toLowerCase().replace(/\s+/g, ""); the field's value is always
\* a string, and the empty one stands for null and undefined as well
normalize(s) == removeWhitespace(toLowerCase(trim(s)))

\* [a-z] under the i flag
IsLetterI(c) == IsLower(c) \/ IsUpper(c)
\* [0-9a-z-] under the i flag
IsSectionCharI(c) == IsDigit(c) \/ IsLetterI(c) \/ c = Dash

\* the chapter pattern with the suffix class of the section, \d+(?:-[0-9a-z-])?
ChapterEndsAnySuffixChar(s) ==
    {k \in 1..Len(s) :
        \E d \in 1..k :
            /\ \A i \in 1..d : IsDigit(s[i])
            /\ \/ k = d
               \/ k = d + 2 /\ s[d + 1] = Dash /\ IsSectionCharI(s[d + 2])}

\* the ends k of the prefixes s[1..k] that \d+(?:-[a-z])? matches
ChapterEnds(s) ==
    {k \in 1..Len(s) :
        \E d \in 1..k :
            /\ \A i \in 1..d : IsDigit(s[i])
            /\ \/ k = d
               \/ k = d + 2 /\ s[d + 1] = Dash /\ IsLetterI(s[d + 2])}

\* (?::([0-9a-z-]+))?$ matches s from position k+1 on
SectionTailMatches(s, k) ==
    \/ k = Len(s)
    \/ /\ k + 1 < Len(s)
       /\ s[k + 1] = Colon
       /\ \A i \in (k + 2)..Len(s) : IsSectionCharI(s[i])

\* if (s.startsWith("rsa")) s = s.slice(3)
stripRsa(s) == IF startsWith(s, RSA_PREFIX) THEN SubSeq(s, RsaLen + 1, Len(s)) ELSE s

parseRSA(input) ==
    LET s == stripRsa(normalize(input))
        ends == {k \in ChapterEnds(s) : SectionTailMatches(s, k)}
    IN  IF ends = {}
        THEN Throw(ParseErrorMsg, <<>>)
        ELSE LET k == SetMax(ends)
                 m1 == SubSeq(s, 1, k)
                 m2 == IF k = Len(s) THEN JsUndefined ELSE JsStr(SubSeq(s, k + 2, Len(s)))
             IN  Return([chapter |-> toLowerCase(m1),
                         section |-> IF Truthy(m2) THEN JsStr(toLowerCase(m2.str)) ELSE JsNull])

---------------------------------------------------------------------------
(* chapterToken, inRange *)

RECURSIVE parseInt10(_)
parseInt10(ds) ==
    IF ds = <<>> THEN 0
    ELSE parseInt10(SubSeq(ds, 1, Len(ds) - 1)) * Radix10 + (ds[Len(ds)] - Digit0)

\* the fold with the letters counted from 0: n = n * 26 + (c.charCodeAt(0) - 65)
RECURSIVE suffixFoldFromZero(_)
suffixFoldFromZero(suf) ==
    IF suf = <<>> THEN 0
    ELSE suffixFoldFromZero(SubSeq(suf, 1, Len(suf) - 1)) * Radix26 + (suf[Len(suf)] - UpperA)

\* for (const c of suf) n = n * 26 + (c.charCodeAt(0) - 64), from n = 0
RECURSIVE suffixFold(_)
suffixFold(suf) ==
    IF suf = <<>> THEN 0
    ELSE suffixFold(SubSeq(suf, 1, Len(suf) - 1)) * Radix26 + (suf[Len(suf)] - CodeBeforeUpperA)

\* the lengths d of the digit runs with which ^(\d+)(?:-([A-Z]+))?$ matches u
TokenDigitRuns(u) ==
    {d \in 1..Len(u) :
        /\ \A i \in 1..d : IsDigit(u[i])
        /\ \/ d = Len(u)
           \/ /\ d + 1 < Len(u)
              /\ u[d + 1] = Dash
              /\ \A i \in (d + 2)..Len(u) : IsUpper(u[i])}

chapterToken(ch) ==
    LET u == toUpperCase(ch)
        runs == TokenDigitRuns(u)
    IN  IF runs = {}
        THEN Throw(BadChapterMsg, ch)
        ELSE LET d == SetMax(runs)
                 suf == IF d = Len(u) THEN <<>> ELSE SubSeq(u, d + 2, Len(u))
             IN  Return(<<parseInt10(SubSeq(u, 1, d)), suffixFold(suf)>>)

\* the comparison with the end bound exclusive
inRangeTokensEndExclusive(x, a, b) ==
    /\ (a[1] < x[1] \/ (a[1] = x[1] /\ a[2] <= x[2]))
    /\ (x[1] < b[1] \/ (x[1] = b[1] /\ x[2] < b[2]))

inRangeTokens(x, a, b) ==
    /\ (a[1] < x[1] \/ (a[1] = x[1] /\ a[2] <= x[2]))
    /\ (x[1] < b[1] \/ (x[1] = b[1] /\ x[2] <= b[2]))

inRange(ch, start, end) ==
    LET x == chapterToken(ch)
        a == chapterToken(start)
        b == chapterToken(end)
    IN  IF ~x.ok THEN x
        ELSE IF ~a.ok THEN a
        ELSE IF ~b.ok THEN b
        ELSE Return(inRangeTokens(x.val, a.val, b.val))

---------------------------------------------------------------------------
(* folderForChapter, buildUrl *)

\* obj?.[key]: the value under key, undefined when there is none
Lookup(map, key) == IF key \in DOMAIN map THEN JsStr(map[key]) ELSE JsUndefined

\* the loop keeping the last matching entry instead of returning at the first
RECURSIVE scanRangesLastMatch(_, _, _)
scanRangesLastMatch(chapter, ranges, i) ==
    IF i > Len(ranges) THEN Return(JsNull)
    ELSE LET tr == ranges[i]
             hit == inRange(chapter, toLowerCase(tr.start), toLowerCase(tr.end))
             later == scanRangesLastMatch(chapter, ranges, i + 1)
         IN  IF ~hit.ok THEN hit
             ELSE IF ~later.ok THEN later
             ELSE IF later.val.t = "string" THEN later
             ELSE IF hit.val THEN Return(JsStr(tr.folder))
             ELSE later

\* the for loop over payload.title_ranges, from entry i on
RECURSIVE scanRanges(_, _, _)
scanRanges(chapter, ranges, i) ==
    IF i > Len(ranges) THEN Return(JsNull)
    ELSE LET tr == ranges[i]
             hit == inRange(chapter, toLowerCase(tr.start), toLowerCase(tr.end))
         IN  IF ~hit.ok THEN hit
             ELSE IF hit.val THEN Return(JsStr(tr.folder))
             ELSE scanRanges(chapter, ranges, i + 1)

folderForChapter(chapter, payload) ==
    LET direct == Lookup(payload.chapter_to_title, chapter)
    IN  IF Truthy(direct) THEN Return(direct)
        ELSE scanRanges(chapter, payload.title_ranges, 1)

\* buildUrl testing the folder against null only: if (folder === null) throw ...
buildUrlNullTestOnly(chapter, section, folder) ==
    IF folder.t # "string" THEN Throw(MissingFolderMsg, chapter)
    ELSE IF Truthy(section)
    THEN Return(BASE \o <<Slash>> \o folder.str \o <<Slash>> \o chapter \o <<Slash>>
                \o chapter \o <<Dash>> \o section.str \o HTM)
    ELSE Return(BASE \o <<Slash>> \o folder.str \o <<Slash>> \o chapter \o <<Slash>>
                \o chapter \o <<Dash>> \o MRG \o HTM)

buildUrl(chapter, section, folder) ==
    IF ~Truthy(folder) THEN Throw(MissingFolderMsg, chapter)
    ELSE IF Truthy(section)
    THEN Return(BASE \o <<Slash>> \o folder.str \o <<Slash>> \o chapter \o <<Slash>>
                \o chapter \o <<Dash>> \o section.str \o HTM)
    ELSE Return(BASE \o <<Slash>> \o folder.str \o <<Slash>> \o chapter \o <<Slash>>
                \o chapter \o <<Dash>> \o MRG \o HTM)

---------------------------------------------------------------------------
(* The output area and the body of go() *)

OutText(m, a) == [kind |-> "text", msg |-> m, arg |-> a, url |-> <<>>]
OutLink(u) == [kind |-> "link", msg |-> "Opening: ", arg |-> <<>>, url |-> u]
OutEmpty == OutText("", <<>>)

\* catch (e) { out.textContent = e.message || String(e) }
Caught(e) == [shown |-> OutText(e.msg, e.arg), opens |-> <<>>]

\* go() from the payload on: folderForChapter, buildUrl, the link, window.open
goResolve(chapter, section, payload) ==
    LET folder == folderForChapter(chapter, payload)
    IN  IF ~folder.ok THEN Caught(folder)
        ELSE LET url == buildUrl(chapter, section, folder.val)
             IN  IF ~url.ok THEN Caught(url)
                 ELSE [shown |-> OutLink(url.val), opens |-> <<url.val>>]

---------------------------------------------------------------------------
(* Bounds and the inputs drawn from them *)

MaxBodyLen == 5
MaxSuffixLen == 2
MaxRanges == 2
MaxInvocations == 2

SeqsUpTo(S, n) == UNION {[1..k -> S] : k \in 0..n}

\* what the user may type: one of the openings "", "rsa", "RSA ", "rs", "rsarsa",
\* then up to MaxBodyLen of the characters 1 a - : and space
Prefixes == {<<>>, <<114, 115, 97>>, <<82, 83, 65, 32>>, <<114, 115>>,
             <<114, 115, 97, 114, 115, 97>>}
BodyChars == {49, 97, 45, 58, 32}
Texts == {p \o b : p \in Prefixes, b \in SeqsUpTo(BodyChars, MaxBodyLen)}

\* the chapters tokenized: a base among "1", "2", "9", "10", "09", then no suffix
\* or "-" and up to MaxSuffixLen of the letters a b z B; and some malformed strings
TokenBases == {<<49>>, <<50>>, <<57>>, <<49, 48>>, <<48, 57>>}
TokenLetters == {97, 98, 122, 66}
ChaptersOf(bases, letters, n) ==
    bases \cup {b \o <<Dash>> \o x : b \in bases, x \in SeqsUpTo(letters, n) \ {<<>>}}
TokenChapters == ChaptersOf(TokenBases, TokenLetters, MaxSuffixLen)
Malformed == {<<>>, <<97>>, <<49, 45>>, <<49, 45, 49>>, <<45, 97>>, <<49, 97>>,
              <<49, 45, 97, 45>>, <<49, 32>>}

\* the chapters compared by inRange: base "1" or "2", letters a and b, and "1-"
RangeChapters == ChaptersOf({<<49>>, <<50>>}, {97, 98}, MaxSuffixLen) \cup {<<49, 45>>}

\* folder names
T1 == <<116, 49>>
T2 == <<116, 50>>

\* the chapters resolved: "1", "2-a", "3"; the sections: none, "4"
ResolveChapters == {<<49>>, <<50, 45, 97>>, <<51>>}
ResolveSections == {JsNull, JsStr(<<52>>)}

\* mapping payloads: chapter_to_title has no key, or the key "2-a" with the folder
\* "t2" or ""; title_ranges has up to MaxRanges entries with start and end among
\* "1", "2-A" and the malformed "X", and the folder "t1" or ""
DirectMaps == {<<>>} \cup {[k \in {<<50, 45, 97>>} |-> f] : f \in {T2, <<>>}}
RangeBounds == {<<49>>, <<50, 45, 65>>, <<88>>}
RangeEntries == [start : RangeBounds, end : RangeBounds, folder : {T1, <<>>}]
PayloadsOf(n) == [chapter_to_title : DirectMaps, title_ranges : SeqsUpTo(RangeEntries, n)]
Payloads == PayloadsOf(MaxRanges)

---------------------------------------------------------------------------
(* The invocations of go() *)

IdleInv == [pc |-> "idle", input |-> <<>>, chapter |-> <<>>, section |-> JsNull,
            overlapped |-> FALSE, fetched |-> FALSE, failure |-> "none",
            shown |-> OutEmpty, opens |-> <<>>]

GoInit ==
    /\ inv = [i \in 1..MaxInvocations |-> IdleInv]
    /\ out = OutEmpty
    /\ opened = <<>>
    /\ fetches = 0

goVars == <<inv, out, opened, fetches>>

---------------------------------------------------------------------------
(* Calls of the pure functions on drawn arguments *)

Frame(fn, args) == [fn |-> fn, args |-> args, done |-> FALSE, ret |-> Throw("", <<>>)]
NoCall == Frame("none", <<>>)

InitParse ==
    /\ call \in {Frame("parseRSA", <<t>>) : t \in Texts}
    /\ GoInit

CallParseRSA ==
    /\ call.fn = "parseRSA" /\ ~call.done
    /\ call' = [call EXCEPT !.done = TRUE, !.ret = parseRSA(call.args[1])]
    /\ UNCHANGED goVars

NextParse == CallParseRSA

SpecParse == InitParse /\ [][NextParse]_vars

InitToken ==
    /\ call \in {Frame("chapterToken", <<c>>) : c \in TokenChapters \cup Malformed}
               \cup {Frame("inRange", <<x, a, b>>) : x \in RangeChapters, a \in RangeChapters,
                                                     b \in RangeChapters}
    /\ GoInit

CallChapterToken ==
    /\ call.fn = "chapterToken" /\ ~call.done
    /\ call' = [call EXCEPT !.done = TRUE, !.ret = chapterToken(call.args[1])]
    /\ UNCHANGED goVars

CallInRange ==
    /\ call.fn = "inRange" /\ ~call.done
    /\ call' = [call EXCEPT !.done = TRUE,
                            !.ret = inRange(call.args[1], call.args[2], call.args[3])]
    /\ UNCHANGED goVars

NextToken == CallChapterToken \/ CallInRange

SpecToken == InitToken /\ [][NextToken]_vars

\* lines 66 to 72 of go() on a parsed citation and a loaded payload; ret is the
\* local folder
InitResolve ==
    /\ call \in {Frame("goResolve", <<c, x, p>>) :
                    c \in ResolveChapters, x \in ResolveSections, p \in Payloads}
    /\ GoInit

CallGoResolve ==
    /\ call.fn = "goResolve" /\ ~call.done
    /\ LET o == goResolve(call.args[1], call.args[2], call.args[3])
       IN  /\ out' = o.shown
           /\ opened' = opened \o o.opens
    /\ call' = [call EXCEPT !.done = TRUE,
                            !.ret = folderForChapter(call.args[1], call.args[3])]
    /\ UNCHANGED <<inv, fetches>>

NextResolve == CallGoResolve

SpecResolve == InitResolve /\ [][NextResolve]_vars

---------------------------------------------------------------------------
(* go(), triggered by the button or the Enter key, and its two awaits *)

\* the field's text at a trigger: "1", "2-a:4", "RSA 3", "x"
FieldTexts == {<<49>>, <<50, 45, 97, 58, 52>>, <<82, 83, 65, 32, 51>>, <<120>>}

\* the messages of the errors the platform raises: fetch() rejecting, r.json() rejecting
FetchRejectMessages == {"Failed to fetch", "Load failed"}
JsonRejectMessages == {"Unexpected token '<', \"<!DOCTYPE \"... is not valid JSON"}

\* the payloads a fetch may bring: no key or the key "2-a", and no range or one
\* range ending at "2-A" that starts at "1" or at the malformed "X"
GoPayloads ==
    [chapter_to_title : DirectMaps,
     title_ranges : SeqsUpTo([start : {<<49>>, <<88>>}, end : {<<50, 45, 65>>}, folder : {T1}], 1)]

Pending(i) == inv[i].pc \in {"fetch", "json"}

\* the invocation ends in the catch block with error e, or after window.open
Finish(i, o, why) ==
    /\ out' = o.shown
    /\ opened' = opened \o o.opens
    /\ inv' = [inv EXCEPT ![i] = [@ EXCEPT !.pc = "done", !.failure = why,
                                          !.shown = o.shown, !.opens = o.opens]]

\* go() issuing the fetch of the mapping before it parses the field
TriggerFetchingFirst(i, text) ==
    /\ inv[i].pc = "idle"
    /\ \A j \in 1..(i - 1) : inv[j].pc # "idle"
    /\ LET parsed == parseRSA(text)
           overlaps == \E j \in 1..MaxInvocations : Pending(j)
       IN  /\ out' = OutEmpty
           /\ fetches' = fetches + 1
           /\ inv' = [inv EXCEPT ![i] = [@ EXCEPT !.pc = "fetch", !.input = text,
                          !.chapter = IF parsed.ok THEN parsed.val.chapter ELSE <<>>,
                          !.section = IF parsed.ok THEN parsed.val.section ELSE JsNull,
                          !.overlapped = overlaps, !.fetched = TRUE]]
           /\ UNCHANGED opened
    /\ UNCHANGED call

\* go() up to its first await: the output is cleared, the field is read and parsed,
\* and either the parse error is shown or the fetch is issued
Trigger(i, text) ==
    /\ inv[i].pc = "idle"
    /\ \A j \in 1..(i - 1) : inv[j].pc # "idle"
    /\ LET parsed == parseRSA(text)
           overlaps == \E j \in 1..MaxInvocations : Pending(j)
       IN  IF ~parsed.ok
           THEN /\ out' = OutText(parsed.msg, parsed.arg)
                /\ inv' = [inv EXCEPT ![i] = [@ EXCEPT !.pc = "done", !.input = text,
                               !.overlapped = overlaps,
                               !.shown = OutText(parsed.msg, parsed.arg)]]
                /\ UNCHANGED <<opened, fetches>>
           ELSE /\ out' = OutEmpty
                /\ fetches' = fetches + 1
                /\ inv' = [inv EXCEPT ![i] = [@ EXCEPT !.pc = "fetch", !.input = text,
                               !.chapter = parsed.val.chapter,
                               !.section = parsed.val.section,
                               !.overlapped = overlaps, !.fetched = TRUE]]
                /\ UNCHANGED opened
    /\ UNCHANGED call

\* await fetch(...) resumes with a response: r.json() is awaited when r.ok, and
\* Error("Could not load mapping JSON.") is thrown when not
FetchResponds(i, ok) ==
    /\ inv[i].pc = "fetch"
    /\ IF ok
       THEN /\ inv' = [inv EXCEPT ![i] = [@ EXCEPT !.pc = "json"]]
            /\ UNCHANGED <<out, opened>>
       ELSE Finish(i, Caught(Throw(MappingLoadMsg, <<>>)), "nonOk")
    /\ UNCHANGED <<call, fetches>>

\* await fetch(...) throws the platform's error: loadMapping has no handler, go catches
FetchRejects(i, m) ==
    /\ inv[i].pc = "fetch"
    /\ Finish(i, Caught(Throw(m, <<>>)), "fetchRejected")
    /\ UNCHANGED <<call, fetches>>

\* await r.json() resumes with the payload, and go() runs to its end
JsonResolves(i, payload) ==
    /\ inv[i].pc = "json"
    /\ Finish(i, goResolve(inv[i].chapter, inv[i].section, payload), "none")
    /\ UNCHANGED <<call, fetches>>

\* await r.json() throws the platform's SyntaxError
JsonRejects(i, m) ==
    /\ inv[i].pc = "json"
    /\ Finish(i, Caught(Throw(m, <<>>)), "jsonRejected")
    /\ UNCHANGED <<call, fetches>>

Init ==
    /\ call = NoCall
    /\ GoInit

Next ==
    \E i \in 1..MaxInvocations :
        \/ \E text \in FieldTexts : Trigger(i, text)
        \/ \E ok \in BOOLEAN : FetchResponds(i, ok)
        \/ \E m \in FetchRejectMessages : FetchRejects(i, m)
        \/ \E payload \in GoPayloads : JsonResolves(i, payload)
        \/ \E m \in JsonRejectMessages : JsonRejects(i, m)

Spec == Init /\ [][Next]_vars

---------------------------------------------------------------------------
(* The citation grammar as the specification words it *)

\* chapter := digits ("-" letters)?
GrammarChapter(c) ==
    \E d \in 1..Len(c) :
        /\ \A i \in 1..d : IsDigit(c[i])
        /\ \/ d = Len(c)
           \/ /\ d + 1 < Len(c)
              /\ c[d + 1] = Dash
              /\ \A i \in (d + 2)..Len(c) : IsLetterI(c[i])

\* section := [alnum or hyphen]+
GrammarSection(x) == x # <<>> /\ \A i \in 1..Len(x) : IsSectionCharI(x[i])

\* the citations chapter (":" section)? that s spells
GrammarCitations(s) ==
    (IF GrammarChapter(s) THEN {[chapter |-> toLowerCase(s), section |-> JsNull]} ELSE {})
    \cup
    {[chapter |-> toLowerCase(SubSeq(s, 1, k - 1)),
      section |-> JsStr(toLowerCase(SubSeq(s, k + 1, Len(s))))] :
        k \in {j \in 1..Len(s) : /\ s[j] = Colon
                                 /\ GrammarChapter(SubSeq(s, 1, j - 1))
                                 /\ GrammarSection(SubSeq(s, j + 1, Len(s)))}}

ParseDone == call.fn = "parseRSA" /\ call.done
ParseText == stripRsa(normalize(call.args[1]))

\* C1: parseRSA accepts exactly the citation grammar of the specification: a text
\* that, normalized and without one leading "rsa", spells digits, optionally "-" and
\* one or more letters, optionally ":" and a section, yields that Citation
\* lowercased; every other text fails with the parse message.
C1_ParserAcceptsGrammar ==
    ParseDone =>
        IF GrammarCitations(ParseText) = {}
        THEN call.ret = Throw(ParseErrorMsg, <<>>)
        ELSE call.ret.ok /\ call.ret.val \in GrammarCitations(ParseText)

\* the start and end values of a payload's ranges, as folderForChapter passes them on
LoweredBounds(p) ==
    {toLowerCase(p.title_ranges[i].start) : i \in 1..Len(p.title_ranges)}
    \cup {toLowerCase(p.title_ranges[i].end) : i \in 1..Len(p.title_ranges)}

\* C9: every chapter parseRSA returns is accepted by chapterToken, so a "Bad chapter
\* format" error of the resolution names a start or end value of the payload that
\* chapterToken rejects, never the user's chapter.
C9_ParsedChapterIsTokenizable ==
    (ParseDone /\ call.ret.ok) =>
        /\ chapterToken(call.ret.val.chapter).ok
        /\ \A p \in PayloadsOf(1) :
              LET f == folderForChapter(call.ret.val.chapter, p)
              IN  (~f.ok /\ f.msg = BadChapterMsg) =>
                      /\ f.arg # call.ret.val.chapter
                      /\ f.arg \in LoweredBounds(p)
                      /\ ~chapterToken(f.arg).ok

\* a citation with a letter suffix was parsed, and some payload's malformed bound
\* makes its resolution fail
C9_Witness ==
    /\ ParseDone /\ call.ret.ok
    /\ \E i \in 1..Len(call.ret.val.chapter) : call.ret.val.chapter[i] = Dash
    /\ \E p \in PayloadsOf(1) : ~folderForChapter(call.ret.val.chapter, p).ok

---------------------------------------------------------------------------
(* The token order as the specification words it *)

\* the position of a letter in the alphabet, 1 for a or A, 26 for z or Z
LetterPosition(c) == IF IsLower(c) THEN c - LowerA + 1 ELSE c - UpperA + 1

RECURSIVE Power(_, _)
Power(b, e) == IF e = 0 THEN 1 ELSE b * Power(b, e - 1)

\* the bijective base-26 value of a letter string: 0 for none, a = 1, z = 26, aa = 27
RECURSIVE Bijective26(_)
Bijective26(suf) ==
    IF suf = <<>> THEN 0
    ELSE LetterPosition(Head(suf)) * Power(Radix26, Len(suf) - 1) + Bijective26(Tail(suf))

RECURSIVE DecimalValue(_)
DecimalValue(ds) ==
    IF ds = <<>> THEN 0
    ELSE (Head(ds) - Digit0) * Power(Radix10, Len(ds) - 1) + DecimalValue(Tail(ds))

\* the digits and the letters of a chapter digits ("-" letters)?
DigitsOf(c) == SelectSeq(c, IsDigit)
SuffixOf(c) == SelectSeq(c, IsLetterI)

TokenLess(t, u) == t[1] < u[1] \/ (t[1] = u[1] /\ t[2] < u[2])
TokenLeq(t, u) == ~TokenLess(u, t)

tokenOf(c) == chapterToken(c).val

TokenDone == call.fn = "chapterToken" /\ call.done
InRangeDone == call.fn = "inRange" /\ call.done

\* C5: inRange(x, start, end) is true exactly when tokenOf(start) <= tokenOf(x) <=
\* tokenOf(end) in the lexicographic order on (base, suffixOrdinal), both bounds
\* inclusive; inRange(c, c, c) is true, and inRange is false whenever
\* tokenOf(start) > tokenOf(end).
C5_InRangeIsInclusiveInterval ==
    (InRangeDone /\ \A i \in 1..3 : GrammarChapter(call.args[i])) =>
        LET x == tokenOf(call.args[1])
            a == tokenOf(call.args[2])
            b == tokenOf(call.args[3])
        IN  /\ call.ret.ok
            /\ call.ret.val = (TokenLeq(a, x) /\ TokenLeq(x, b))
            /\ ((call.args[1] = call.args[2] /\ call.args[2] = call.args[3]) => call.ret.val)
            /\ (TokenLess(b, a) => ~call.ret.val)

\* inRange returned true for a chapter equal to the end bound and above the start
C5_Witness ==
    /\ InRangeDone /\ call.ret.ok /\ call.ret.val
    /\ call.args[1] = call.args[3]
    /\ call.args[1] # call.args[2]

---------------------------------------------------------------------------
(* The resolution as the specification words it *)

ResolveDone == call.fn = "goResolve" /\ call.done
ResolveChapter == call.args[1]
ResolveSection == call.args[2]
ResolvePayload == call.args[3]

\* C2: when chapter_to_title has a key equal to the chapter, folderForChapter
\* returns that key's value, whatever title_ranges holds.
C2_DirectMappingAlwaysWins ==
    (ResolveDone /\ ResolveChapter \in DOMAIN ResolvePayload.chapter_to_title) =>
        call.ret = Return(JsStr(ResolvePayload.chapter_to_title[ResolveChapter]))

\* entry tr is well formed, and its inclusive range holds chapter c
Covers(tr, c) ==
    /\ GrammarChapter(tr.start) /\ GrammarChapter(tr.end)
    /\ TokenLeq(tokenOf(toLowerCase(tr.start)), tokenOf(c))
    /\ TokenLeq(tokenOf(c), tokenOf(toLowerCase(tr.end)))

IllFormed(tr) == ~GrammarChapter(tr.start) \/ ~GrammarChapter(tr.end)

FirstIn(S) == CHOOSE i \in S : \A j \in S : i <= j

\* C3 as claimed: with no key equal to the chapter, folderForChapter returns the
\* folder of the first entry, in listed order, whose inclusive range holds the
\* chapter, and null, raising nothing, when no entry holds it.
C3_FirstCoveringRangeOrNull ==
    (ResolveDone /\ ResolveChapter \notin DOMAIN ResolvePayload.chapter_to_title) =>
        LET trs == ResolvePayload.title_ranges
            hits == {i \in 1..Len(trs) : Covers(trs[i], ResolveChapter)}
        IN  IF hits = {} THEN call.ret = Return(JsNull)
            ELSE call.ret = Return(JsStr(trs[FirstIn(hits)].folder))

\* C3 as amended: the scan stops at the first entry that either holds the chapter
\* or has a malformed start or end; at a holding entry it returns the entry's
\* folder, at a malformed one it raises "Bad chapter format: " with the first
\* malformed of the lowercased start and end; null when the scan stops nowhere.
C3_FirstCoveringOrMalformedRange ==
    (ResolveDone /\ ResolveChapter \notin DOMAIN ResolvePayload.chapter_to_title) =>
        LET trs == ResolvePayload.title_ranges
            stops == {i \in 1..Len(trs) : Covers(trs[i], ResolveChapter) \/ IllFormed(trs[i])}
        IN  IF stops = {} THEN call.ret = Return(JsNull)
            ELSE LET tr == trs[FirstIn(stops)]
                 IN  IF IllFormed(tr)
                     THEN call.ret = Throw(BadChapterMsg,
                                           IF GrammarChapter(tr.start) THEN toLowerCase(tr.end)
                                           ELSE toLowerCase(tr.start))
                     ELSE call.ret = Return(JsStr(tr.folder))

\* two entries hold the chapter with different folders, and the first one's
\* folder was returned
C3_Witness ==
    /\ ResolveDone /\ ResolveChapter \notin DOMAIN ResolvePayload.chapter_to_title
    /\ Len(ResolvePayload.title_ranges) >= 2
    /\ Covers(ResolvePayload.title_ranges[1], ResolveChapter)
    /\ Covers(ResolvePayload.title_ranges[2], ResolveChapter)
    /\ ResolvePayload.title_ranges[1].folder # ResolvePayload.title_ranges[2].folder
    /\ call.ret = Return(JsStr(ResolvePayload.title_ranges[1].folder))

\* the segments joined by "/"
RECURSIVE JoinPath(_)
JoinPath(segs) ==
    IF Len(segs) = 1 THEN segs[1]
    ELSE segs[1] \o <<Slash>> \o JoinPath(Tail(segs))

\* BASE/folder/chapter/chapter-section.htm, with mrg for an absent section
ClaimedUrl(chapter, section, folder) ==
    JoinPath(<<BASE, folder, chapter,
               chapter \o <<Dash>> \o (IF section.t = "string" THEN section.str ELSE MRG) \o HTM>>)

---------------------------------------------------------------------------
(* The trigger handler as the specification words it *)

MappingLoadText == OutText(MappingLoadMsg, <<>>)
ParseErrorText == OutText(ParseErrorMsg, <<>>)

\* C4: whenever the retrieval of the mapping fails (a response that is not OK, a
\* fetch that throws, a body that does not parse as JSON), the output area shows
\* "Could not load mapping JSON.".
C4_UniformMappingLoadError ==
    [][\A i \in 1..MaxInvocations :
          (inv[i].failure = "none" /\ inv'[i].failure # "none") => out' = MappingLoadText]_vars

\* C7: an invocation of go() whose input does not parse shows the parse error in
\* the output area at once, issues no fetch and opens no tab, then or later.
C7_ParseFailureStopsBeforeFetch ==
    [][\A i \in 1..MaxInvocations :
          /\ (inv[i].pc = "idle" /\ inv'[i].pc # "idle" /\ ~parseRSA(inv'[i].input).ok)
                => /\ out' = ParseErrorText
                   /\ fetches' = fetches
                   /\ opened' = opened
                   /\ inv'[i].pc = "done"
          /\ (inv[i].pc = "done" /\ ~parseRSA(inv[i].input).ok)
                => /\ inv'[i] = inv[i]
                   /\ ~inv[i].fetched
                   /\ inv[i].opens = <<>>]_vars

\* an invocation on unparseable text has ended with the parse error on display
\* while an earlier invocation is still fetching
C7_Witness ==
    \E i \in 1..MaxInvocations :
        /\ inv[i].pc = "done" /\ ~parseRSA(inv[i].input).ok
        /\ out = ParseErrorText
        /\ fetches = 1
        /\ \E j \in 1..MaxInvocations : inv[j].pc = "fetch"

Triggered == {i \in 1..MaxInvocations : inv[i].pc # "idle"}

\* C10: once overlapping invocations have all completed, the output area shows the
\* outcome of the invocation triggered last, whatever the order of completion.
C10_LastTriggerWins ==
    ( /\ Triggered # {}
      /\ \A i \in Triggered : inv[i].pc = "done"
      /\ inv[SetMax(Triggered)].overlapped )
    => out = inv[SetMax(Triggered)].shown

====
